---- MODULE Spec2Model ----
(***************************************************************************)
(* The WebSocket manager of the market-data viewer: one manager object     *)
(* (connection lifecycle, reconnection with backoff, ref-counted topic     *)
(* subscriptions) together with the browser objects it drives: the         *)
(* WebSocket instances it has constructed and the timers it has set.       *)
(***************************************************************************)
EXTENDS Integers, Sequences, FiniteSets, TLC

\* ------------------------------------------------------------------ bounds
\* WebSocket objects that can be alive (not yet garbage) at the same time.
MaxSockets == 2
\* setTimeout timers that can be pending at the same time.
MaxTimers == 2
\* Unsubscribe handles returned by subscribe() and not yet invoked.
MaxHandles == 2
\* Redundant wire messages per topic: a topic is subscribed at most MaxSkew
\* times over, and unsubscribed at most MaxSkew - 1 times more than subscribed.
MaxSkew == 2
\* Elements of a sequence payload of an inbound message.
MaxItems == 2
\* Own keys of a params object whose key is built.
MaxParams == 2
\* Elements of the data array of one twap or trades message given to the store.
MaxBatch == 2
\* Prices and bucket sizes given to the bucket calculator are one leading
\* digit times a power of ten up to 10^MaxExp (and a few fixed ones).
MaxExp == 2

\* --------------------------------------------------------- program constants
RECONNECT_DELAY_MS == 2000
MAX_RECONNECT_DELAY_MS == 30000
MAX_TRADES_HISTORY == 100
DEFAULT_N_SIG_FIGS == 4
DEFAULT_N_LEVELS == 100
LEVELS_MIN == 1
LEVELS_MAX == 100
maxReconnectAttempts == 10

\* ------------------------------------------------------------------- inputs
\* Consumer callbacks (function identities) handed to subscribe().
Callbacks == {"cb1", "cb2"}

\* The (type, params) arguments of subscribe(). params is the object's own
\* keys in insertion order, each with its value.
TopicInputs ==
    { [type |-> "trades", params |-> << <<"coin", "BTC">> >>],
      [type |-> "l2Book", params |-> << <<"coin", "BTC">>, <<"nSigFigs", "5">> >>],
      [type |-> "l2Book", params |-> << <<"nSigFigs", "5">>, <<"coin", "BTC">> >>],
      [type |-> "trades", params |-> << >>] }

\* Rank of a parameter name in the order Array.prototype.sort() gives
\* (UTF-16 code units): coin < mantissa < nLevels < nSigFigs.
KeyRank(k) ==
    CASE k = "coin" -> 1
      [] k = "mantissa" -> 2
      [] k = "nLevels" -> 3
      [] k = "nSigFigs" -> 4

\* An element of a sequence payload: null, or an object with or without a coin.
Items ==
    { [kind |-> "null", coin |-> "undefined"],
      [kind |-> "object", coin |-> "BTC"],
      [kind |-> "object", coin |-> "ETH"] }

\* The data member of an inbound message: null, a number, an object with or
\* without a coin member, or an array of at most MaxItems elements.
Payloads ==
    { [kind |-> "null", coin |-> "undefined", items |-> << >>],
      [kind |-> "number", coin |-> "undefined", items |-> << >>] }
    \cup { [kind |-> "object", coin |-> c, items |-> << >>] :
             c \in {"BTC", "ETH", "undefined"} }
    \cup { [kind |-> "array", coin |-> "undefined", items |-> is] :
             is \in UNION { [1 .. n -> Items] : n \in 0 .. MaxItems } }

\* The text of a WebSocket frame: the JSON of {channel, data}, whole, or (for
\* an object payload on the trades channel) cut short in transit. On the
\* l2Book channel, which no modelled consumer of a frame subscribes to, only
\* object payloads are sent.
Frames ==
    { [channel |-> "trades", data |-> d, truncated |-> FALSE] : d \in Payloads }
    \cup { [channel |-> ch, data |-> d, truncated |-> tr] :
             ch \in {"trades", "l2Book"},
             d \in { p \in Payloads : p.kind = "object" },
             tr \in BOOLEAN }

\* No frame: the value of inbound when the last operation handled no message.
NoFrame == [frame |-> "none", throwers |-> {}]

\* ------------------------------------------------------------------ buildKey
RECURSIVE InsertSorted(_, _)
InsertSorted(p, ps) ==
    IF ps = << >> THEN << p >>
    ELSE IF KeyRank(p[1]) <= KeyRank(Head(ps)[1]) THEN << p >> \o ps
    ELSE << Head(ps) >> \o InsertSorted(p, Tail(ps))

RECURSIVE SortParams(_)
SortParams(ps) ==
    IF ps = << >> THEN << >> ELSE InsertSorted(Head(ps), SortParams(Tail(ps)))

\* JSON.stringify of an object: a member whose value is undefined is left out.
stringify(ps) == SelectSeq(ps, LAMBDA p : p[2] # "undefined")

\* The key with the params object's keys left in insertion order.
buildKeyInsertionOrder(type, params) == << type, stringify(params) >>

buildKey(type, params) == << type, stringify(SortParams(params)) >>

AllKeys == { buildKey(in.type, in.params) : in \in TopicInputs }

\* ------------------------------------------------------------------- state
\* WebSocket objects are told apart only by what the manager can tell apart:
\* the one this.socket references, and the others it has constructed, which it
\* no longer references but whose handlers still call into it.
VARIABLES
    socket,             \* this.socket: "null", or the readyState of the object
    stale,              \* per readyState: live sockets this.socket no longer references
    subscriptions,      \* this.subscriptions: the Map, entries in insertion order
    reconnectAttempts,  \* this.reconnectAttempts
    reconnectTimeout,   \* this.reconnectTimeout: "null", or a timer "pending" / "fired"
    orphans,            \* pending timers this.reconnectTimeout no longer references
    status,             \* this.status
    paused,             \* this.paused
    wire,               \* per topic: subscribes minus unsubscribes sent on this.socket
    held,               \* handles returned by subscribe() and never invoked
    spent,              \* invoked handles the consumer still keeps a reference to
    task,               \* whose close event follows its error event: "none", "current", "stale"
    ctorThrows,         \* whether new WebSocket(url) throws for this url
    scope,              \* what this behaviour exercises: one of Scopes
    quiet,              \* paused, and no call by a consumer since that pause()
    lastOp,             \* the operation or event handled last
    sent,               \* wire messages emitted by the last operation, in order
    notified,           \* statuses given to setStatus by the last operation
    scheduled,          \* delays given to setTimeout by the last operation
    event,              \* the frame the server sends in this behaviour
    throwers,           \* the consumer callbacks that throw when invoked
    inbound,            \* the frame handled by the last operation, and who threw
    delivered,          \* callback invocations made by the last operation, in order
    call,               \* the pure function this behaviour calls, with its arguments
    result,             \* what that call has returned, once it has
    twapStore,          \* the state of useTwapStore
    localStorage        \* per coin, the TWAP statuses saved last

vars == << socket, stale, subscriptions, reconnectAttempts, reconnectTimeout,
           orphans, status, paused, wire, held, spent, task, ctorThrows,
           scope, quiet, lastOp, sent, notified, scheduled,
           event, throwers, inbound, delivered, call, result,
           twapStore, localStorage >>

\* No call of a pure function (the behaviours of the manager), and no result yet.
NoCall == [fn |-> "none", args |-> << >>]

NoResult == [returned |-> FALSE, value |-> << >>]

Returned(v) == [returned |-> TRUE, value |-> v]

\* readyState of a socket that can still fire events.
LiveStates == {"CONNECTING", "OPEN", "CLOSING"}

NoWire == [k \in AllKeys |-> 0]

NoStale == [rs \in LiveStates |-> 0]

\* The manager and the browser objects it touches, as one value the handlers
\* transform. ok turns FALSE when a handler would exceed a bound of the model.
This ==
    [ socket |-> socket, stale |-> stale, subscriptions |-> subscriptions,
      reconnectAttempts |-> reconnectAttempts,
      reconnectTimeout |-> reconnectTimeout, orphans |-> orphans,
      status |-> status, paused |-> paused, wire |-> wire,
      sent |-> << >>, notified |-> << >>, scheduled |-> << >>,
      inbound |-> NoFrame, delivered |-> << >>, ok |-> TRUE ]

\* ------------------------------------------------------------ small helpers
Min(a, b) == IF a <= b THEN a ELSE b

RECURSIVE Pow2(_)
Pow2(n) == IF n = 0 THEN 1 ELSE 2 * Pow2(n - 1)

\* Index of the Map entry with this key, or 0 (Map.has / Map.get).
RECURSIVE FindFrom(_, _, _)
FindFrom(subs, key, i) ==
    IF i > Len(subs) THEN 0
    ELSE IF subs[i].key = key THEN i
    ELSE FindFrom(subs, key, i + 1)

Find(subs, key) == FindFrom(subs, key, 1)

RemoveAt(seq, i) == SubSeq(seq, 1, i - 1) \o SubSeq(seq, i + 1, Len(seq))

InSeq(x, seq) == \E i \in 1 .. Len(seq) : seq[i] = x

\* Set.add putting a new element first.
SetAddFirst(seq, x) == IF InSeq(x, seq) THEN seq ELSE << x >> \o seq

\* Set.add and Set.delete on a Set kept in insertion order.
SetAdd(seq, x) == IF InSeq(x, seq) THEN seq ELSE Append(seq, x)

SetDelete(seq, x) == SelectSeq(seq, LAMBDA y : y # x)

\* this.socket?.readyState === WebSocket.OPEN
IsOpen(t) == t.socket = "OPEN"

\* Sockets that can still fire events, and timers that can still expire.
LiveSockets(t) ==
    (IF t.socket \in LiveStates THEN 1 ELSE 0)
      + t.stale["CONNECTING"] + t.stale["OPEN"] + t.stale["CLOSING"]

PendingTimers(t) == (IF t.reconnectTimeout = "pending" THEN 1 ELSE 0) + t.orphans

\* ---------------------------------------------------------------- setStatus
setStatus(t, s) == [t EXCEPT !.status = s, !.notified = Append(@, s)]

\* --------------------------------------------------------------------- send
\* WebSocket.send of the JSON of {method, subscription: {type, ...params}}.
\* The receiver reads the subscription as an object, whatever the order its
\* members were written in: the message names the topic.
Transmit(t, method, type, params) ==
    LET topic == buildKey(type, params)
        n == t.wire[topic] + (IF method = "subscribe" THEN 1 ELSE -1)
    IN  [t EXCEPT
            !.wire[topic] = n,
            !.sent = Append(@, [method |-> method, topic |-> topic]),
            !.ok = @ /\ n <= MaxSkew /\ n >= 1 - MaxSkew]

send(t, method, type, params) ==
    IF IsOpen(t) THEN Transmit(t, method, type, params) ELSE t

sendSubscribe(t, type, params) == send(t, "subscribe", type, params)

sendUnsubscribe(t, type, params) == send(t, "unsubscribe", type, params)

\* this.subscriptions.forEach((sub) => this.sendSubscribe / sendUnsubscribe)
RECURSIVE SendAllFrom(_, _, _)
SendAllFrom(t, method, i) ==
    IF i > Len(t.subscriptions) THEN t
    ELSE SendAllFrom(send(t, method, t.subscriptions[i].type,
                          t.subscriptions[i].params), method, i + 1)

SendAll(t, method) == SendAllFrom(t, method, 1)

\* --------------------------------------------------------- attemptReconnect
BackoffDelayUncapped(n) == RECONNECT_DELAY_MS * Pow2(n)

BackoffDelay(n) == Min(RECONNECT_DELAY_MS * Pow2(n), MAX_RECONNECT_DELAY_MS)

\* this.reconnectTimeout = setTimeout(...): the timer the field referenced, if
\* still pending, stays pending with no reference left to it.
setReconnectTimeout(t, delay) ==
    LET t1 == IF t.reconnectTimeout = "pending"
              THEN [t EXCEPT !.orphans = @ + 1] ELSE t
    IN  [t1 EXCEPT !.reconnectTimeout = "pending",
                   !.scheduled = Append(@, delay),
                   !.ok = @ /\ t1.orphans + 1 <= MaxTimers]

\* attemptReconnect giving up one attempt late.
attemptReconnectOneMore(t) ==
    IF t.paused THEN t
    ELSE IF t.reconnectAttempts > maxReconnectAttempts THEN setStatus(t, "error")
    ELSE setReconnectTimeout([t EXCEPT !.reconnectAttempts = @ + 1],
                             BackoffDelay(t.reconnectAttempts))

attemptReconnect(t) ==
    IF t.paused THEN t
    ELSE IF t.reconnectAttempts >= maxReconnectAttempts THEN setStatus(t, "error")
    ELSE setReconnectTimeout([t EXCEPT !.reconnectAttempts = @ + 1],
                             BackoffDelay(t.reconnectAttempts))

\* ------------------------------------------------------------------ connect
\* this.socket = new WebSocket(url): the object the field referenced, if it is
\* still live, stays live with its handlers attached.
Construct(t) ==
    LET t1 == IF t.socket \in LiveStates
              THEN [t EXCEPT !.stale[t.socket] = @ + 1] ELSE t
        t2 == [t1 EXCEPT !.socket = "CONNECTING", !.wire = NoWire]
    IN  [t2 EXCEPT !.ok = @ /\ LiveSockets(t2) <= MaxSockets]

connect(t) ==
    IF IsOpen(t) THEN t
    ELSE IF ctorThrows
         THEN attemptReconnect(setStatus(setStatus(t, "connecting"), "error"))
         ELSE Construct(setStatus(t, "connecting"))

\* ---------------------------------------------------------------- subscribe
subscribe(t, type, params, callback) ==
    LET key == buildKey(type, params)
        t1 == IF t.socket = "null" \/ t.socket # "OPEN" THEN connect(t) ELSE t
        i == Find(t1.subscriptions, key)
    IN  IF i # 0
        THEN [t1 EXCEPT !.subscriptions[i].callbacks = SetAdd(@, callback)]
        ELSE LET t2 == [t1 EXCEPT !.subscriptions =
                          Append(@, [key |-> key, type |-> type, params |-> params,
                                     callbacks |-> << callback >>])]
             IN  IF IsOpen(t2) /\ ~t2.paused
                 THEN sendSubscribe(t2, type, params)
                 ELSE t2

\* The closure without its deletion of an entry left with no callback.
unsubscribeKeepEntry(t, type, params, callback) ==
    LET key == buildKey(type, params)
        i == Find(t.subscriptions, key)
    IN  IF i = 0 THEN t
        ELSE [t EXCEPT !.subscriptions[i].callbacks = SetDelete(@, callback)]

\* The closure subscribe() returns, for the arguments it captured.
unsubscribe(t, type, params, callback) ==
    LET key == buildKey(type, params)
        i == Find(t.subscriptions, key)
    IN  IF i = 0 THEN t
        ELSE LET cbs == SetDelete(t.subscriptions[i].callbacks, callback)
             IN  IF Len(cbs) = 0
                 THEN LET t1 == [t EXCEPT !.subscriptions = RemoveAt(@, i)]
                      IN  IF IsOpen(t1) THEN sendUnsubscribe(t1, type, params) ELSE t1
                 ELSE [t EXCEPT !.subscriptions[i].callbacks = cbs]

\* ------------------------------------------------------------ pause, resume
\* if (this.reconnectTimeout) { clearTimeout(...); this.reconnectTimeout = null }
clearReconnectTimeout(t) ==
    IF t.reconnectTimeout # "null" THEN [t EXCEPT !.reconnectTimeout = "null"] ELSE t

\* pause() without its first line, the test of this.paused.
pauseUnguarded(t) ==
    LET t1 == [t EXCEPT !.paused = TRUE]
        t2 == IF IsOpen(t1) THEN SendAll(t1, "unsubscribe") ELSE t1
    IN  clearReconnectTimeout(t2)

pause(t) ==
    IF t.paused THEN t
    ELSE LET t1 == [t EXCEPT !.paused = TRUE]
             t2 == IF IsOpen(t1) THEN SendAll(t1, "unsubscribe") ELSE t1
         IN  clearReconnectTimeout(t2)

resume(t) ==
    IF ~t.paused THEN t
    ELSE LET t1 == [t EXCEPT !.paused = FALSE]
         IN  IF IsOpen(t1) THEN SendAll(t1, "subscribe")
             ELSE IF Len(t1.subscriptions) > 0 THEN connect(t1)
             ELSE t1

\* ----------------------------------------------------- disconnect, reconnect
\* this.socket.close(); this.socket = null: a connecting or open socket starts
\* closing and, unreferenced, still fires its close event.
closeAndDrop(t) ==
    IF t.socket = "null" THEN t
    ELSE IF t.socket \in LiveStates
    THEN [t EXCEPT !.stale["CLOSING"] = @ + 1, !.socket = "null", !.wire = NoWire]
    ELSE [t EXCEPT !.socket = "null", !.wire = NoWire]

disconnect(t) == setStatus(closeAndDrop(clearReconnectTimeout(t)), "disconnected")

reconnect(t) == connect([disconnect(t) EXCEPT !.reconnectAttempts = 0])

\* ------------------------------------------------------- transport handlers
onopen(t) ==
    SendAll(setStatus([t EXCEPT !.reconnectAttempts = 0], "connected"), "subscribe")

onclose(t) == attemptReconnect(setStatus(t, "disconnected"))

onerror(t) == setStatus(t, "error")

\* A timer callback that does nothing.
ontimeoutIdle(t) == t

\* The reconnect timer's callback.
ontimeout(t) == connect(t)

\* ------------------------------------------------------------ message routing
\* params[name], or "undefined" when params has no such key.
RECURSIVE ParamFrom(_, _, _)
ParamFrom(params, name, i) ==
    IF i > Len(params) THEN "undefined"
    ELSE IF params[i][1] = name THEN params[i][2]
    ELSE ParamFrom(params, name, i + 1)

Param(params, name) == ParamFrom(params, name, 1)

\* Whether a parameter value is truthy: undefined and "" are not.
Truthy(v) == v # "undefined" /\ v # ""

\* dataObj.some((item) => item.coin === coin), elements tested in order until
\* one matches: "true", "false", or "throw" (item.coin read on a null element).
RECURSIVE someCoin(_, _, _)
someCoin(items, coin, i) ==
    IF i > Len(items) THEN "false"
    ELSE IF items[i].kind = "null" THEN "throw"
    ELSE IF items[i].coin = coin THEN "true"
    ELSE someCoin(items, coin, i + 1)

matchesChannel(sub, channel, data) ==
    IF sub.type # channel THEN "false"
    ELSE LET coin == Param(sub.params, "coin")
         IN  IF Truthy(coin) /\ data.kind \in {"object", "array"}
             THEN IF data.kind = "array" THEN someCoin(data.items, coin, 1)
                  ELSE IF data.coin = coin THEN "true" ELSE "false"
             ELSE "true"

\* this.subscriptions.forEach: entry i, then its callbacks from the j-th on
\* (j = 0: the entry is still to be matched). A callback in thr throws when it
\* is invoked; an exception leaves both loops.
RECURSIVE RouteFrom(_, _, _, _, _, _)
RouteFrom(t, channel, data, thr, i, j) ==
    IF i > Len(t.subscriptions) THEN t
    ELSE LET sub == t.subscriptions[i]
         IN  IF j = 0
             THEN LET m == matchesChannel(sub, channel, data)
                  IN  IF m = "throw" THEN t
                      ELSE IF m = "false" THEN RouteFrom(t, channel, data, thr, i + 1, 0)
                      ELSE RouteFrom(t, channel, data, thr, i, 1)
             ELSE IF j > Len(sub.callbacks)
             THEN RouteFrom(t, channel, data, thr, i + 1, 0)
             ELSE LET cb == sub.callbacks[j]
                      t1 == [t EXCEPT !.delivered =
                               Append(@, [key |-> sub.key, callback |-> cb, data |-> data])]
                  IN  IF cb \in thr THEN t1
                      ELSE RouteFrom(t1, channel, data, thr, i, j + 1)

routeMessage(t, message, thr) == RouteFrom(t, message.channel, message.data, thr, 1, 0)

\* JSON.parse accepting a frame cut short as if it were whole.
JSONparseLenient(frame) ==
    [thrown |-> FALSE, value |-> [channel |-> frame.channel, data |-> frame.data]]

\* JSON.parse(event.data): throws a SyntaxError on a frame cut short.
JSONparse(frame) ==
    [thrown |-> frame.truncated,
     value |-> [channel |-> frame.channel, data |-> frame.data]]

\* socket.onmessage: whatever is thrown inside is caught and logged.
onmessage(t, frame, thr) ==
    LET t1 == [t EXCEPT !.inbound = [frame |-> frame, throwers |-> thr]]
        parsed == JSONparse(frame)
    IN  IF parsed.thrown THEN t1 ELSE routeMessage(t1, parsed.value, thr)

\* ---------------------------------------------------------- bucket calculator
\* A bucket size is written as its whole count of units of 10^-Decimals: with
\* at most 5 significant figures, the bucket sizes of prices from 1 up are
\* multiples of 10^(1 - 5). A price, of which only the sign and the order of
\* magnitude are used, is written as a whole number.
Decimals == 4

Max(a, b) == IF a >= b THEN a ELSE b

Abs(a) == IF a >= 0 THEN a ELSE -a

RECURSIVE Pow10(_)
Pow10(n) == IF n = 0 THEN 1 ELSE 10 * Pow10(n - 1)

\* The number 1.
Unit == Pow10(Decimals)

\* Math.pow(10, e), for e no less than -Decimals.
pow10(e) == Pow10(e + Decimals)

\* Math.floor(Math.log10(n / d)) for n, d > 0: the e with 10^e <= n/d < 10^(e+1).
RECURSIVE floorLog10(_, _)
floorLog10(n, d) ==
    IF n < d THEN floorLog10(10 * n, d) - 1
    ELSE IF n \div 10 < d THEN 0
    ELSE floorLog10(n \div 10, d) + 1

\* An optional member of a BucketConfig is the set of its values: none or one.
Undefined == {}

\* calculateBucketConfig reporting the preferred mantissa whatever nSigFigs is.
calculateBucketConfigAnyFigures(currentPrice, desiredBucketSize, preferredMantissa) ==
    IF desiredBucketSize <= 0 \/ currentPrice <= 0
    THEN [nSigFigs |-> Undefined, mantissa |-> Undefined, actualBucketSize |-> 0]
    ELSE LET priceDigits == floorLog10(currentPrice, 1) + 1
             bucketDigits == floorLog10(desiredBucketSize, preferredMantissa * Unit)
             calculatedSigFigs == priceDigits - bucketDigits
             nSigFigs == Max(2, Min(5, calculatedSigFigs))
         IN  [nSigFigs |-> {nSigFigs},
              mantissa |-> IF preferredMantissa \in {2, 5}
                           THEN {preferredMantissa} ELSE Undefined,
              actualBucketSize |-> preferredMantissa * pow10(priceDigits - nSigFigs)]

\* calculateBucketConfig without its clamp of nSigFigs.
calculateBucketConfigUnclamped(currentPrice, desiredBucketSize, preferredMantissa) ==
    IF desiredBucketSize <= 0 \/ currentPrice <= 0
    THEN [nSigFigs |-> Undefined, mantissa |-> Undefined, actualBucketSize |-> 0]
    ELSE LET priceDigits == floorLog10(currentPrice, 1) + 1
             bucketDigits == floorLog10(desiredBucketSize, preferredMantissa * Unit)
             nSigFigs == priceDigits - bucketDigits
         IN  [nSigFigs |-> {nSigFigs},
              mantissa |-> IF nSigFigs = 5 /\ preferredMantissa \in {2, 5}
                           THEN {preferredMantissa} ELSE Undefined,
              actualBucketSize |-> preferredMantissa * pow10(priceDigits - nSigFigs)]

\* calculateBucketConfig taking the digit count of the bucket size for its
\* order of magnitude.
calculateBucketConfigDigitCount(currentPrice, desiredBucketSize, preferredMantissa) ==
    IF desiredBucketSize <= 0 \/ currentPrice <= 0
    THEN [nSigFigs |-> Undefined, mantissa |-> Undefined, actualBucketSize |-> 0]
    ELSE LET priceDigits == floorLog10(currentPrice, 1) + 1
             bucketDigits == floorLog10(desiredBucketSize, preferredMantissa * Unit) + 1
             calculatedSigFigs == priceDigits - bucketDigits
             nSigFigs == Max(2, Min(5, calculatedSigFigs))
         IN  [nSigFigs |-> {nSigFigs},
              mantissa |-> IF nSigFigs = 5 /\ preferredMantissa \in {2, 5}
                           THEN {preferredMantissa} ELSE Undefined,
              actualBucketSize |-> preferredMantissa * pow10(priceDigits - nSigFigs)]

calculateBucketConfig(currentPrice, desiredBucketSize, preferredMantissa) ==
    IF desiredBucketSize <= 0 \/ currentPrice <= 0
    THEN [nSigFigs |-> Undefined, mantissa |-> Undefined, actualBucketSize |-> 0]
    ELSE LET priceDigits == floorLog10(currentPrice, 1) + 1
             bucketDigits == floorLog10(desiredBucketSize, preferredMantissa * Unit)
             calculatedSigFigs == priceDigits - bucketDigits
             nSigFigs == Max(2, Min(5, calculatedSigFigs))
         IN  [nSigFigs |-> {nSigFigs},
              mantissa |-> IF nSigFigs = 5 /\ preferredMantissa \in {2, 5}
                           THEN {preferredMantissa} ELSE Undefined,
              actualBucketSize |-> preferredMantissa * pow10(priceDigits - nSigFigs)]

\* The reduce callback keeping the later candidate on equal differences.
closerOrLater(best, current, desiredBucketSize) ==
    IF Abs(current.actualBucketSize - desiredBucketSize)
         <= Abs(best.actualBucketSize - desiredBucketSize)
    THEN current ELSE best

\* The callback of candidates.reduce.
closer(best, current, desiredBucketSize) ==
    LET bestDiff == Abs(best.actualBucketSize - desiredBucketSize)
        currentDiff == Abs(current.actualBucketSize - desiredBucketSize)
    IN  IF currentDiff < bestDiff THEN current ELSE best

\* candidates.reduce(callback) with no initial value, from the i-th element on.
RECURSIVE reduceFrom(_, _, _, _)
reduceFrom(candidates, best, desiredBucketSize, i) ==
    IF i > Len(candidates) THEN best
    ELSE reduceFrom(candidates, closer(best, candidates[i], desiredBucketSize),
                    desiredBucketSize, i + 1)

findBestBucketConfig(currentPrice, desiredBucketSize) ==
    LET mantissas == << 1, 2, 5 >>
        candidates == [i \in 1 .. 3 |->
                         calculateBucketConfig(currentPrice, desiredBucketSize,
                                               mantissas[i])]
    IN  reduceFrom(candidates, candidates[1], desiredBucketSize, 2)

\* generateBucketOptions with its list of options in ascending order of size.
generateBucketOptionsAscending(currentPrice) ==
    IF currentPrice <= 0 THEN << >>
    ELSE LET priceDigits == floorLog10(currentPrice, 1) + 1
             options == << [nSigFigs |-> 5, mantissa |-> 2],
                           [nSigFigs |-> 5, mantissa |-> 5],
                           [nSigFigs |-> 4, mantissa |-> 1],
                           [nSigFigs |-> 3, mantissa |-> 1],
                           [nSigFigs |-> 2, mantissa |-> 1] >>
         IN  [i \in 1 .. 5 |->
                options[i].mantissa * pow10(priceDigits - options[i].nSigFigs)]

generateBucketOptions(currentPrice) ==
    IF currentPrice <= 0 THEN << >>
    ELSE LET priceDigits == floorLog10(currentPrice, 1) + 1
             options == << [nSigFigs |-> 5, mantissa |-> 5],
                           [nSigFigs |-> 5, mantissa |-> 2],
                           [nSigFigs |-> 4, mantissa |-> 1],
                           [nSigFigs |-> 3, mantissa |-> 1],
                           [nSigFigs |-> 2, mantissa |-> 1] >>
         IN  [i \in 1 .. 5 |->
                options[i].mantissa * pow10(priceDigits - options[i].nSigFigs)]

\* selectDefaultBucket defaulting to 5 significant figures.
selectDefaultBucketFiveFigures(currentPrice) ==
    IF currentPrice <= 0 THEN 0
    ELSE LET nSigFigs == 5
             priceDigits == floorLog10(currentPrice, 1) + 1
             bucketSize == pow10(priceDigits - nSigFigs)
             magnitude == pow10(floorLog10(bucketSize, Unit))
         IN  IF 2 * bucketSize <= 3 * magnitude THEN magnitude * 1
             ELSE IF 2 * bucketSize <= 7 * magnitude THEN magnitude * 2
             ELSE magnitude * 5

\* normalized = bucketSize / magnitude is compared with 1.5 and 3.5 as
\* 2 * bucketSize with 3 * magnitude and 7 * magnitude.
selectDefaultBucket(currentPrice) ==
    IF currentPrice <= 0 THEN 0
    ELSE LET nSigFigs == 4
             priceDigits == floorLog10(currentPrice, 1) + 1
             bucketSize == pow10(priceDigits - nSigFigs)
             magnitude == pow10(floorLog10(bucketSize, Unit))
         IN  IF 2 * bucketSize <= 3 * magnitude THEN magnitude * 1
             ELSE IF 2 * bucketSize <= 7 * magnitude THEN magnitude * 2
             ELSE magnitude * 5

\* OrderBookControls: the i-th of the options offered for the price is chosen,
\* and handleBucketChange looks up its config. (The option's text, the decimal
\* form of the number, is read back by parseFloat as the same number.)
handleBucketChange(currentPrice, i) ==
    LET bucketOptions == generateBucketOptions(currentPrice)
        desiredBucket == bucketOptions[i]
        bucketConfig == findBestBucketConfig(currentPrice, desiredBucket)
    IN  [nSigFigs |-> bucketConfig.nSigFigs, mantissa |-> bucketConfig.mantissa,
         bucketSize |-> desiredBucket,
         actualBucketSize |-> bucketConfig.actualBucketSize]

\* ------------------------------------------------------------------ twapStore
\* Coins whose statuses are kept in local storage, and the store as created.
StoredCoins == {"BTC"}

NoStorage == [c \in StoredCoins |-> << >>]

InitialTwapStore ==
    [ twapStatuses |-> << >>, isLoading |-> TRUE, error |-> "null",
      currentCoin |-> "null", knownTwapIds |-> {} ]

\* array.sort((a, b) => b.time - a.time): a stable sort, latest first.
SortByTimeDescending(seq) ==
    LET RECURSIVE Insert(_, _)
        Insert(x, sorted) ==
            IF sorted = << >> THEN << x >>
            ELSE IF Head(sorted).time < x.time THEN << x >> \o sorted
            ELSE << Head(sorted) >> \o Insert(x, Tail(sorted))
        RECURSIVE Sort(_)
        Sort(n) == IF n = 0 THEN << >> ELSE Insert(seq[n], Sort(n - 1))
    IN  Sort(Len(seq))

\* saveTwapStatuses(coin, statuses) and loadTwapStatuses(coin).
saveTwapStatuses(storage, coin, statuses) ==
    IF coin \in DOMAIN storage THEN [storage EXCEPT ![coin] = statuses] ELSE storage

loadTwapStatuses(storage, coin) ==
    IF coin \in DOMAIN storage THEN storage[coin] ELSE << >>

\* The store's actions give the next store and the next storage. statusMap is
\* kept as its values in insertion order.
updateFromTwapMessage(st, storage, twapData) ==
    LET currentCoin == st.currentCoin
        kept == SelectSeq(twapData,
                          LAMBDA twap : currentCoin = "null" \/ twap.coin = currentCoin)
        newStatuses == [i \in 1 .. Len(kept) |->
                          [twapId |-> kept[i].twapId, coin |-> kept[i].coin,
                           time |-> kept[i].time,
                           id |-> << kept[i].twapId, kept[i].time >>,
                           fills |-> << >>]]
        RECURSIVE IndexOf(_, _, _)
        IndexOf(values, twapId, i) ==
            IF i > Len(values) THEN 0
            ELSE IF values[i].twapId = twapId THEN i
            ELSE IndexOf(values, twapId, i + 1)
        MapSet(values, s) ==
            LET i == IndexOf(values, s.twapId, 1)
            IN  IF i = 0 THEN Append(values, s) ELSE [values EXCEPT ![i] = s]
        RECURSIVE AddPrevious(_, _)
        AddPrevious(values, i) ==
            IF i > Len(st.twapStatuses) THEN values
            ELSE AddPrevious(MapSet(values, st.twapStatuses[i]), i + 1)
        RECURSIVE MergeNew(_, _)
        MergeNew(values, i) ==
            IF i > Len(newStatuses) THEN values
            ELSE LET s == newStatuses[i]
                     e == IndexOf(values, s.twapId, 1)
                     fills == IF e = 0 THEN << >> ELSE values[e].fills
                 IN  MergeNew(MapSet(values, [s EXCEPT !.fills = fills]), i + 1)
    IN  IF Len(newStatuses) > 0
        THEN LET statusMap == MergeNew(AddPrevious(<< >>, 1), 1)
                 sorted == SortByTimeDescending(statusMap)
                 merged == SubSeq(sorted, 1, Min(Len(sorted), MAX_TRADES_HISTORY))
             IN  [ store |-> [st EXCEPT
                                !.twapStatuses = merged,
                                !.knownTwapIds = { merged[i].twapId : i \in 1 .. Len(merged) },
                                !.isLoading = FALSE,
                                !.error = "null"],
                   storage |-> IF currentCoin # "null"
                               THEN saveTwapStatuses(storage, currentCoin, merged)
                               ELSE storage ]
        ELSE [store |-> st, storage |-> storage]

\* A trade's twapId is 0 when the trade has none (0 and undefined are falsy).
updateFromTradesMessage(st, storage, tradesData) ==
    LET knownTwapIds == st.knownTwapIds
        twapFills == SelectSeq(tradesData,
                               LAMBDA trade : trade.twapId # 0
                                              /\ trade.twapId \in knownTwapIds)
        fillsByTwapId(twapId) ==
            LET mine == SelectSeq(twapFills, LAMBDA trade : trade.twapId = twapId)
            IN  [i \in 1 .. Len(mine) |-> [time |-> mine[i].time, tid |-> mine[i].tid]]
        Attach(twap) ==
            LET newFills == fillsByTwapId(twap.twapId)
                existingTids == { twap.fills[n].tid : n \in 1 .. Len(twap.fills) }
                uniqueNewFills == SelectSeq(newFills, LAMBDA f : f.tid \notin existingTids)
            IN  IF Len(newFills) > 0
                THEN [twap EXCEPT
                        !.fills = SortByTimeDescending(twap.fills \o uniqueNewFills)]
                ELSE twap
    IN  IF Len(twapFills) > 0
        THEN LET updatedStatuses ==
                   [i \in 1 .. Len(st.twapStatuses) |-> Attach(st.twapStatuses[i])]
             IN  [ store |-> [st EXCEPT !.twapStatuses = updatedStatuses],
                   storage |-> IF st.currentCoin # "null"
                               THEN saveTwapStatuses(storage, st.currentCoin,
                                                     updatedStatuses)
                               ELSE storage ]
        ELSE [store |-> st, storage |-> storage]

reset(st, storage, coin) ==
    LET loaded == loadTwapStatuses(storage, coin)
    IN  [ store |-> [ twapStatuses |-> loaded, isLoading |-> TRUE, error |-> "null",
                      currentCoin |-> coin,
                      knownTwapIds |-> { loaded[i].twapId : i \in 1 .. Len(loaded) } ],
          storage |-> storage ]

\* ------------------------------------------------------------- URL parameters
\* A string is the sequence of its characters; a string that may be null is
\* the set of at most one string. A number is NaN, an infinity (n its sign) or
\* a finite count n of 10^-Decimals.
DEFAULT_COIN == << "B", "T", "C" >>

Alphabet ==
    [ lower |-> << "a", "b", "c", "d", "e", "f", "g", "h", "i", "j", "k", "l", "m",
                   "n", "o", "p", "q", "r", "s", "t", "u", "v", "w", "x", "y", "z" >>,
      upper |-> << "A", "B", "C", "D", "E", "F", "G", "H", "I", "J", "K", "L", "M",
                   "N", "O", "P", "Q", "R", "S", "T", "U", "V", "W", "X", "Y", "Z" >>,
      digits |-> << "0", "1", "2", "3", "4", "5", "6", "7", "8", "9" >> ]

\* String.prototype.trim: without the white space at either end.
trim(s) ==
    LET Between(inside) ==
            IF inside = {} THEN << >>
            ELSE SubSeq(s, CHOOSE i \in inside : \A j \in inside : i <= j,
                           CHOOSE i \in inside : \A j \in inside : i >= j)
    IN  Between({ i \in 1 .. Len(s) : s[i] # " " })

toLowerCase(s) ==
    [i \in 1 .. Len(s) |->
       IF \E k \in 1 .. 26 : Alphabet.upper[k] = s[i]
       THEN Alphabet.lower[CHOOSE k \in 1 .. 26 : Alphabet.upper[k] = s[i]]
       ELSE s[i]]

toUpperCase(s) ==
    [i \in 1 .. Len(s) |->
       IF \E k \in 1 .. 26 : Alphabet.lower[k] = s[i]
       THEN Alphabet.upper[CHOOSE k \in 1 .. 26 : Alphabet.lower[k] = s[i]]
       ELSE s[i]]

\* The longest run of decimal digits of s from position i: where it ends, how
\* many digits it has, and their value.
ScanDigits(s, i) ==
    LET IsDigit(c) == \E k \in 1 .. 10 : Alphabet.digits[k] = c
        RECURSIVE Scan(_, _)
        Scan(j, value) ==
            IF j <= Len(s) /\ IsDigit(s[j])
            THEN Scan(j + 1, 10 * value
                             + (CHOOSE k \in 1 .. 10 : Alphabet.digits[k] = s[j]) - 1)
            ELSE [end |-> j, count |-> j - i, value |-> value]
    IN  Scan(i, 0)

\* parseInt(string, 10): a whole number, or NaN.
parseInt(string) ==
    LET Whole(negative, run) ==
            IF run.count = 0 THEN [kind |-> "NaN", n |-> 0]
            ELSE [kind |-> "number", n |-> IF negative THEN -run.value ELSE run.value]
        Literal(s) ==
            IF Len(s) >= 1 /\ s[1] \in {"+", "-"}
            THEN Whole(s[1] = "-", ScanDigits(s, 2))
            ELSE Whole(FALSE, ScanDigits(s, 1))
    IN  Literal(trim(string))

\* parseFloat(string): the longest prefix that is a decimal literal. A literal
\* of 10^309 or more is beyond the largest double and gives Infinity; digits
\* beyond Decimals places are dropped.
parseFloat(string) ==
    LET Infinite(sign) == [kind |-> "Infinity", n |-> sign]
        RECURSIVE Figures(_)
        Figures(m) == IF m < 10 THEN 1 ELSE 1 + Figures(m \div 10)
        Value(sign, mantissa, scale) ==
            IF mantissa = 0 THEN [kind |-> "number", n |-> 0]
            ELSE IF Figures(mantissa) - 1 + scale >= 309 THEN Infinite(sign)
            ELSE [kind |-> "number",
                  n |-> sign * (IF scale + Decimals >= 0
                                THEN mantissa * Pow10(scale + Decimals)
                                ELSE mantissa \div Pow10(-(scale + Decimals)))]
        Powered(sign, whole, frac, negative, power) ==
            Value(sign, whole.value * Pow10(frac.count) + frac.value,
                  (IF negative THEN -power.value ELSE power.value) - frac.count)
        ExponentPart(s, sign, whole, frac, e) ==
            IF e <= Len(s) /\ s[e] \in {"e", "E"}
            THEN IF e + 1 <= Len(s) /\ s[e + 1] \in {"+", "-"}
                 THEN Powered(sign, whole, frac, s[e + 1] = "-", ScanDigits(s, e + 2))
                 ELSE Powered(sign, whole, frac, FALSE, ScanDigits(s, e + 1))
            ELSE Value(sign, whole.value * Pow10(frac.count) + frac.value, -frac.count)
        Fraction(s, sign, whole, frac) ==
            IF whole.count + frac.count = 0 THEN [kind |-> "NaN", n |-> 0]
            ELSE ExponentPart(s, sign, whole, frac, frac.end)
        Mantissa(s, sign, whole) ==
            IF whole.end <= Len(s) /\ s[whole.end] = "."
            THEN Fraction(s, sign, whole, ScanDigits(s, whole.end + 1))
            ELSE Fraction(s, sign, whole, [end |-> whole.end, count |-> 0, value |-> 0])
        Unsigned(s, sign, i0) ==
            IF Len(s) >= i0 + 7
               /\ SubSeq(s, i0, i0 + 7) = << "I", "n", "f", "i", "n", "i", "t", "y" >>
            THEN Infinite(sign)
            ELSE Mantissa(s, sign, ScanDigits(s, i0))
        Literal(s) ==
            IF Len(s) >= 1 /\ s[1] \in {"+", "-"}
            THEN Unsigned(s, IF s[1] = "-" THEN -1 ELSE 1, 2)
            ELSE Unsigned(s, 1, 1)
    IN  Literal(trim(string))

\* Number.prototype.toString(): the shortest decimal that reads back as x.
toString(x) ==
    LET RECURSIVE Whole(_)
        Whole(m) == IF m < 10 THEN << Alphabet.digits[m + 1] >>
                    ELSE Append(Whole(m \div 10), Alphabet.digits[(m % 10) + 1])
        RECURSIVE Places(_, _)
        Places(f, d) == IF f = 0 THEN << >>
                        ELSE << Alphabet.digits[(f \div Pow10(d - 1)) + 1] >>
                             \o Places(f % Pow10(d - 1), d - 1)
        minus == IF x.n < 0 THEN << "-" >> ELSE << >>
    IN  IF x.kind = "NaN" THEN << "N", "a", "N" >>
        ELSE IF x.kind = "Infinity"
        THEN minus \o << "I", "n", "f", "i", "n", "i", "t", "y" >>
        ELSE minus \o Whole(Abs(x.n) \div Unit)
             \o (IF Abs(x.n) % Unit = 0 THEN << >>
                 ELSE << "." >> \o Places(Abs(x.n) % Unit, Decimals))

validateSymbol(symbol) ==
    LET Normalized(normalized) ==
            IF Len(normalized) = 0 THEN DEFAULT_COIN ELSE normalized
    IN  IF symbol = {} \/ symbol = { << >> } THEN DEFAULT_COIN
        ELSE Normalized(toUpperCase(trim(CHOOSE v \in symbol : TRUE)))

validateLevels(levels) ==
    LET Parsed(parsed) ==
            IF parsed.kind = "NaN" THEN DEFAULT_N_LEVELS
            ELSE Max(LEVELS_MIN, Min(LEVELS_MAX, parsed.n))
    IN  IF levels = {} \/ levels = { << >> } THEN DEFAULT_N_LEVELS
        ELSE Parsed(parseInt(CHOOSE v \in levels : TRUE))

validateBucket(bucket) ==
    LET auto == [nSigFigs |-> {DEFAULT_N_SIG_FIGS}, mantissa |-> Undefined,
                 bucketSize |-> Undefined]
        Sized(parsed) ==
            IF parsed.kind = "NaN" \/ parsed.n < 0 THEN auto
            ELSE [nSigFigs |-> Undefined, mantissa |-> Undefined,
                  bucketSize |-> {parsed}]
        Normalized(normalized) ==
            IF normalized = << "a", "u", "t", "o" >> THEN auto
            ELSE IF normalized = << "f", "u", "l", "l" >> \/ normalized = << "0" >>
            THEN [nSigFigs |-> Undefined, mantissa |-> Undefined,
                  bucketSize |-> {[kind |-> "number", n |-> 0]}]
            ELSE Sized(parseFloat(normalized))
    IN  IF bucket = {} \/ bucket = { << >> } THEN auto
        ELSE Normalized(trim(toLowerCase(CHOOSE v \in bucket : TRUE)))

validateUrlParams(params) ==
    LET bucketConfig == validateBucket(params.bucket)
    IN  [ coin |-> validateSymbol(params.symbol),
          nLevels |-> validateLevels(params.levels),
          nSigFigs |-> bucketConfig.nSigFigs,
          mantissa |-> bucketConfig.mantissa,
          bucketSize |-> bucketConfig.bucketSize ]

\* URLSearchParams is the value set last under each name, none when none was.
parseUrlParams(searchParams) ==
    [ symbol |-> searchParams.symbol,
      bucket |-> searchParams.bucket,
      levels |-> searchParams.levels ]

serializeConfig(config) ==
    [ symbol |-> IF config.coin # DEFAULT_COIN THEN {config.coin} ELSE {},
      bucket |-> IF config.bucketSize # Undefined
                 THEN LET bucketSize == CHOOSE v \in config.bucketSize : TRUE
                      IN  IF bucketSize = [kind |-> "number", n |-> 0]
                          THEN {<< "f", "u", "l", "l" >>}
                          ELSE {toString(bucketSize)}
                 ELSE IF config.nSigFigs # {DEFAULT_N_SIG_FIGS}
                 THEN {<< "a", "u", "t", "o" >>}
                 ELSE {},
      levels |-> IF config.nLevels # DEFAULT_N_LEVELS
                 THEN {toString([kind |-> "number", n |-> config.nLevels * Unit])}
                 ELSE {} ]

\* ------------------------------------------------------------------- scopes
\* A behaviour exercises one side of the manager in depth. In the "registry"
\* scope several consumers subscribe to several topics, in either key order,
\* over a transport that opens and stays up. In the "routing" scope consumers
\* subscribe to a channel with and without a coin filter and the server sends
\* a frame, which some of the callbacks may fail on. In the "visibility" scope one
\* consumer holds two topics over such a transport while the page is hidden
\* and shown. In the "transport" scope one consumer holds one topic while the
\* page is hidden and shown, the transport fails and closes, and the manager
\* is driven through connect(), reconnect() and disconnect().
Scopes == {"registry", "visibility", "transport"}

OneInput == CHOOSE in \in TopicInputs : in.type = "trades" /\ in.params # << >>

InputsOf(sc) ==
    CASE sc = "registry" -> { in \in TopicInputs : in.params # << >> }
      [] sc = "visibility" ->
           { in \in TopicInputs : in.params # << >> /\ Head(in.params)[1] = "coin" }
      [] sc = "routing" -> { in \in TopicInputs : in.type = "trades" }
      [] sc = "transport" -> {OneInput}

CallbacksOf(sc) == IF sc \in {"registry", "routing"} THEN Callbacks ELSE {"cb1"}

HandlesOf(sc) == IF sc = "transport" THEN MaxHandles - 1 ELSE MaxHandles

\* The page's visibility changes, and so pause() and resume() are called.
Hides(sc) == sc \in {"visibility", "transport"}

\* The transport fails and closes, and the lifecycle controls are used.
Fails(sc) == sc = "transport"

\* The server sends a frame (the behaviours of RouteSpec).
Routes(sc) == sc = "routing"

\* ------------------------------------------------------------------- actions
HeldTotal(h) ==
    LET RECURSIVE Sum(_)
        Sum(S) == IF S = {} THEN 0
                  ELSE LET x == CHOOSE x \in S : TRUE IN h[x] + Sum(S \ {x})
    IN  Sum(DOMAIN h)

\* Handles a consumer holds a reference to: never invoked, or invoked and kept.
HandlesKept == HeldTotal(held) + Cardinality({ x \in DOMAIN spent : spent[x] })

\* Whether the registry has an entry for this key: 1 or 0.
Registered(subs, key) == IF Find(subs, key) # 0 THEN 1 ELSE 0

\* The state after a handler has run to completion. Only an open socket holds
\* server-side subscriptions, so wire is kept for an open this.socket only.
Apply(r, tk) ==
    /\ r.ok
    /\ socket' = r.socket
    /\ stale' = r.stale
    /\ subscriptions' = r.subscriptions
    /\ reconnectAttempts' = r.reconnectAttempts
    /\ reconnectTimeout' = r.reconnectTimeout
    /\ orphans' = r.orphans
    /\ status' = r.status
    /\ paused' = r.paused
    /\ wire' = IF IsOpen(r) THEN r.wire ELSE NoWire
    /\ sent' = r.sent
    /\ notified' = r.notified
    /\ scheduled' = r.scheduled
    /\ inbound' = r.inbound
    /\ delivered' = r.delivered
    /\ task' = tk
    /\ UNCHANGED << ctorThrows, scope, event, throwers, call, result,
                    twapStore, localStorage >>

\* The manager after construction, in a behaviour of one of these scopes.
Created(scopes) ==
    /\ socket = "null"
    /\ stale = NoStale
    /\ subscriptions = << >>
    /\ reconnectAttempts = 0
    /\ reconnectTimeout = "null"
    /\ orphans = 0
    /\ status = "disconnected"
    /\ paused = FALSE
    /\ wire = NoWire
    /\ held = [x \in TopicInputs \X Callbacks |-> 0]
    /\ spent = [x \in TopicInputs \X Callbacks |-> FALSE]
    /\ task = "none"
    /\ scope \in scopes
    /\ ctorThrows \in (IF Fails(scope) THEN BOOLEAN ELSE {FALSE})
    /\ quiet = FALSE
    /\ lastOp = "init"
    /\ sent = << >>
    /\ notified = << >>
    /\ scheduled = << >>
    /\ event \in (IF Routes(scope) THEN Frames
                  ELSE {CHOOSE f \in Frames : f.truncated})
    /\ throwers \in (IF Routes(scope) THEN SUBSET {"cb1"} ELSE {{}})
    /\ inbound = NoFrame
    /\ delivered = << >>
    /\ twapStore = InitialTwapStore
    /\ localStorage = NoStorage

\* The state after construction, where no pure function is called.
Start(scopes) == Created(scopes) /\ call = NoCall /\ result = NoResult

Init == Start(Scopes)

\* A consumer calls subscribe(type, params, callback) and keeps the handle.
Subscribe(in, cb) ==
    /\ task = "none"
    /\ in \in InputsOf(scope) /\ cb \in CallbacksOf(scope)
    /\ HandlesKept < HandlesOf(scope)
    /\ Apply(subscribe(This, in.type, in.params, cb), "none")
    /\ held' = [held EXCEPT ![<< in, cb >>] = @ + 1]
    /\ UNCHANGED spent
    /\ quiet' = FALSE
    /\ lastOp' = "subscribe"

\* A consumer invokes, for the first time, a handle subscribe() returned, and
\* then keeps the handle or (always so where frames are routed) drops it.
Release(in, cb, keep) ==
    /\ task = "none"
    /\ held[<< in, cb >>] > 0
    /\ keep => ~Routes(scope)
    /\ Apply(unsubscribe(This, in.type, in.params, cb), "none")
    /\ held' = [held EXCEPT ![<< in, cb >>] = @ - 1]
    /\ spent' = [spent EXCEPT ![<< in, cb >>] = @ \/ keep]
    /\ quiet' = FALSE
    /\ lastOp' = "release"

\* A consumer invokes again a handle it has already invoked.
ReleaseAgain(in, cb) ==
    /\ task = "none"
    /\ spent[<< in, cb >>]
    /\ Apply(unsubscribe(This, in.type, in.params, cb), "none")
    /\ UNCHANGED << held, spent >>
    /\ quiet' = FALSE
    /\ lastOp' = "releaseAgain"

\* The server-side subscriptions of an open this.socket are those of the registry.
InSync ==
    IsOpen(This) => \A k \in AllKeys : wire[k] = Registered(subscriptions, k)

Pause ==
    /\ task = "none"
    /\ Hides(scope)
    /\ Apply(pause(This), "none")
    /\ UNCHANGED << held, spent >>
    /\ quiet' = IF paused THEN quiet ELSE InSync
    /\ lastOp' = "pause"

Resume ==
    /\ task = "none"
    /\ Hides(scope)
    /\ Apply(resume(This), "none")
    /\ UNCHANGED << held, spent >>
    /\ quiet' = FALSE
    /\ lastOp' = "resume"

Connect ==
    /\ task = "none"
    /\ Fails(scope)
    /\ Apply(connect(This), "none")
    /\ UNCHANGED << held, spent >>
    /\ quiet' = FALSE
    /\ lastOp' = "connect"

Reconnect ==
    /\ task = "none"
    /\ Fails(scope)
    /\ Apply(reconnect(This), "none")
    /\ UNCHANGED << held, spent >>
    /\ quiet' = FALSE
    /\ lastOp' = "reconnect"

Disconnect ==
    /\ task = "none"
    /\ Fails(scope)
    /\ Apply(disconnect(This), "none")
    /\ UNCHANGED << held, spent >>
    /\ quiet' = FALSE
    /\ lastOp' = "disconnect"

\* The timer this.reconnectTimeout references expires and its callback runs.
TimerFire ==
    /\ task = "none"
    /\ reconnectTimeout = "pending"
    /\ Apply(ontimeout([This EXCEPT !.reconnectTimeout = "fired"]), "none")
    /\ UNCHANGED << held, spent, quiet >>
    /\ lastOp' = "timer"

\* A pending timer that this.reconnectTimeout no longer references expires.
OrphanFire ==
    /\ task = "none"
    /\ orphans > 0
    /\ Apply(ontimeout([This EXCEPT !.orphans = @ - 1]), "none")
    /\ UNCHANGED << held, spent, quiet >>
    /\ lastOp' = "timer"

\* The socket this.socket references, or a stale one of readyState rs, goes to
\* readyState to (to = "CLOSED": the object can fire no further event).
Moved(t, who, rs, to) ==
    IF who = "current" THEN [t EXCEPT !.socket = to]
    ELSE IF to = "CLOSED" THEN [t EXCEPT !.stale[rs] = @ - 1]
    ELSE [t EXCEPT !.stale[rs] = @ - 1, !.stale[to] = @ + 1]

\* Some socket of readyState rs exists: this.socket's object, or a stale one.
Exists(who, rs) ==
    /\ rs \in LiveStates
    /\ who \in {"current", "stale"}
    /\ who = "current" => socket = rs
    /\ who = "stale" => stale[rs] > 0

\* The connection of a socket is established: the open event.
OnOpen(who) ==
    /\ task = "none"
    /\ Exists(who, "CONNECTING")
    /\ Apply(onopen(Moved(This, who, "CONNECTING", "OPEN")), "none")
    /\ UNCHANGED << held, spent, quiet >>
    /\ lastOp' = "open"

\* The connection of a socket fails: the socket is closed, the error event is
\* fired, and the close event follows in the same task (the two handlers
\* together stay within the bounds of the model).
OnError(who, rs) ==
    /\ task = "none"
    /\ Fails(scope)
    /\ Exists(who, rs)
    /\ onclose(onerror(Moved(This, who, rs, "CLOSED"))).ok
    /\ Apply(onerror(Moved(This, who, rs, "CLOSED")), who)
    /\ UNCHANGED << held, spent, quiet >>
    /\ lastOp' = "error"

\* The close event that follows a socket's error event.
OnCloseAfterError ==
    /\ task # "none"
    /\ Apply(onclose(This), "none")
    /\ UNCHANGED << held, spent, quiet >>
    /\ lastOp' = "close"

\* The close event of a socket whose closing handshake, started by the server
\* or by close(), has completed.
OnClose(who, rs) ==
    /\ task = "none"
    /\ Fails(scope)
    /\ rs \in {"OPEN", "CLOSING"}
    /\ Exists(who, rs)
    /\ Apply(onclose(Moved(This, who, rs, "CLOSED")), "none")
    /\ UNCHANGED << held, spent, quiet >>
    /\ lastOp' = "close"

\* A socket the manager has constructed receives the frame.
OnMessage(who) ==
    /\ task = "none"
    /\ Routes(scope)
    /\ Exists(who, "OPEN")
    /\ Apply(onmessage(This, event, throwers), "none")
    /\ UNCHANGED << held, spent, quiet >>
    /\ lastOp' = "message"

Next ==
    \/ \E in \in TopicInputs, cb \in Callbacks : Subscribe(in, cb)
    \/ \E in \in TopicInputs, cb \in Callbacks, keep \in BOOLEAN : Release(in, cb, keep)
    \/ \E in \in TopicInputs, cb \in Callbacks : ReleaseAgain(in, cb)
    \/ Pause
    \/ Resume
    \/ Connect
    \/ Reconnect
    \/ Disconnect
    \/ TimerFire
    \/ OrphanFire
    \/ \E who \in {"current", "stale"} : OnOpen(who)
    \/ \E who \in {"current", "stale"}, rs \in LiveStates : OnError(who, rs)
    \/ OnCloseAfterError
    \/ \E who \in {"current", "stale"}, rs \in LiveStates : OnClose(who, rs)

Spec == Init /\ [][Next]_vars

\* The behaviours in which the transport fails and closes, under the browser's
\* scheduling: it runs the callback of every timer that stays pending, and
\* delivers the close event that follows an error event in the same task.
LiveSpec ==
    /\ Start({"transport"})
    /\ [][Next]_vars
    /\ WF_vars(TimerFire)
    /\ WF_vars(OrphanFire)
    /\ WF_vars(OnCloseAfterError)

\* The manager while frames are routed to consumers.
RouteInit == Start({"routing"})

RouteNext ==
    \/ \E in \in TopicInputs, cb \in Callbacks : Subscribe(in, cb)
    \/ \E in \in TopicInputs, cb \in Callbacks : Release(in, cb, FALSE)
    \/ \E who \in {"current", "stale"} : OnOpen(who)
    \/ \E who \in {"current", "stale"} : OnMessage(who)

RouteSpec == RouteInit /\ [][RouteNext]_vars

\* ------------------------------------------------------- the pure functions
\* Every variable but result.
world == << socket, stale, subscriptions, reconnectAttempts, reconnectTimeout,
            orphans, status, paused, wire, held, spent, task, ctorThrows,
            scope, quiet, lastOp, sent, notified, scheduled,
            event, throwers, inbound, delivered, call, twapStore, localStorage >>

\* Names and values of the members of a params object.
ParamNames == {"coin", "mantissa", "nSigFigs"}

ParamValues(name) ==
    CASE name = "coin" -> {"BTC", "ETH"}
      [] name = "mantissa" -> {"2", "undefined"}
      [] name = "nSigFigs" -> {"4", "5"}

\* The params objects of at most MaxParams own keys, in every insertion order.
ParamObjects ==
    { ps \in UNION { [1 .. n -> { << k, v >> : k \in ParamNames,
                                              v \in {"BTC", "ETH", "2", "4", "5",
                                                     "undefined"} }] :
                       n \in 0 .. MaxParams } :
        /\ \A i \in 1 .. Len(ps) : ps[i][2] \in ParamValues(ps[i][1])
        /\ \A i \in 1 .. Len(ps), j \in 1 .. Len(ps) : i # j => ps[i][1] # ps[j][1] }

KeyInputs == { [type |-> ty, params |-> ps] : ty \in {"trades", "l2Book"},
                                               ps \in ParamObjects }

\* Two calls of subscribe(), the topics of which are keyed.
KeyInit ==
    /\ Created({"keys"})
    /\ call \in { [fn |-> "buildKey", args |-> << a, b >>] :
                    a \in KeyInputs, b \in KeyInputs }
    /\ result = NoResult

BuildKey ==
    /\ call.fn = "buildKey" /\ ~result.returned
    /\ result' = Returned([i \in 1 .. 2 |->
                             buildKey(call.args[i].type, call.args[i].params)])
    /\ UNCHANGED world

KeyNext == BuildKey

KeySpec == KeyInit /\ [][KeyNext]_vars

\* Prices: none, negative, and whole prices from 1 up.
Prices ==
    {-1, 0, 4000, 106000}
    \cup { c * Pow10(k) : c \in {1, 4, 9}, k \in 0 .. MaxExp }

\* Desired bucket sizes: none, negative, 0.2, 0.5, 1.5, 3.5, 15, 35, and 1, 2
\* or 5 times a power of ten.
BucketSizes ==
    {-Unit, 0}
    \cup { (c * Unit) \div 10 : c \in {2, 5, 15, 35, 150, 350} }
    \cup { c * Pow10(k) * Unit : c \in {1, 2, 5}, k \in 0 .. MaxExp }

BucketCalls ==
    { [fn |-> "calculateBucketConfig", args |-> << p, d, m >>] :
        p \in Prices, d \in BucketSizes, m \in {1, 2, 5} }
    \cup { [fn |-> "findBestBucketConfig", args |-> << p, d >>] :
             p \in Prices, d \in BucketSizes }
    \cup { [fn |-> "generateBucketOptions", args |-> << p >>] : p \in Prices }
    \cup { [fn |-> "selectDefaultBucket", args |-> << p >>] : p \in Prices }
    \cup { [fn |-> "handleBucketChange", args |-> << p, i >>] :
             p \in { q \in Prices : q > 0 }, i \in 1 .. 5 }

\* One call of a function of the bucket calculator.
BucketInit ==
    /\ Created({"buckets"})
    /\ call \in BucketCalls
    /\ result = NoResult

CalculateBucketConfig ==
    /\ call.fn = "calculateBucketConfig" /\ ~result.returned
    /\ result' = Returned(calculateBucketConfig(call.args[1], call.args[2],
                                                call.args[3]))
    /\ UNCHANGED world

FindBestBucketConfig ==
    /\ call.fn = "findBestBucketConfig" /\ ~result.returned
    /\ result' = Returned(findBestBucketConfig(call.args[1], call.args[2]))
    /\ UNCHANGED world

GenerateBucketOptions ==
    /\ call.fn = "generateBucketOptions" /\ ~result.returned
    /\ result' = Returned(generateBucketOptions(call.args[1]))
    /\ UNCHANGED world

SelectDefaultBucket ==
    /\ call.fn = "selectDefaultBucket" /\ ~result.returned
    /\ result' = Returned(selectDefaultBucket(call.args[1]))
    /\ UNCHANGED world

HandleBucketChange ==
    /\ call.fn = "handleBucketChange" /\ ~result.returned
    /\ result' = Returned(handleBucketChange(call.args[1], call.args[2]))
    /\ UNCHANGED world

BucketNext ==
    \/ CalculateBucketConfig
    \/ FindBestBucketConfig
    \/ GenerateBucketOptions
    \/ SelectDefaultBucket
    \/ HandleBucketChange

BucketSpec == BucketInit /\ [][BucketNext]_vars

\* ------------------------------------------------------------- the TWAP store
\* Every variable but those of the store.
others == << socket, stale, subscriptions, reconnectAttempts, reconnectTimeout,
             orphans, status, paused, wire, held, spent, task, ctorThrows,
             scope, quiet, lastOp, sent, notified, scheduled,
             event, throwers, inbound, delivered, call, result >>

\* Elements of a twap message: TWAP 1 of BTC at two times, TWAP 2 of BTC, and
\* TWAP 3 of another coin.
TwapUpdates ==
    { [coin |-> "BTC", twapId |-> 1, time |-> 1],
      [coin |-> "BTC", twapId |-> 1, time |-> 3],
      [coin |-> "BTC", twapId |-> 2, time |-> 2],
      [coin |-> "ETH", twapId |-> 3, time |-> 2] }

\* Elements of a trades message: two trades of TWAP 1, one of TWAP 2, and one
\* of no TWAP. A trade has one tid and one time.
Trades ==
    { [twapId |-> 1, tid |-> 7, time |-> 1],
      [twapId |-> 1, tid |-> 8, time |-> 2],
      [twapId |-> 2, tid |-> 9, time |-> 2],
      [twapId |-> 0, tid |-> 10, time |-> 1] }

\* The data arrays of at most MaxBatch elements.
Batches(S) == UNION { [1 .. n -> S] : n \in 0 .. MaxBatch }

TwapInit == Created({"twap"}) /\ call = NoCall /\ result = NoResult

SetStore(r) ==
    /\ twapStore' = r.store
    /\ localStorage' = r.storage
    /\ UNCHANGED others

UpdateFromTwapMessage(twapData) ==
    SetStore(updateFromTwapMessage(twapStore, localStorage, twapData))

UpdateFromTradesMessage(tradesData) ==
    SetStore(updateFromTradesMessage(twapStore, localStorage, tradesData))

Reset(coin) == SetStore(reset(twapStore, localStorage, coin))

TwapNext ==
    \/ \E twapData \in Batches(TwapUpdates) : UpdateFromTwapMessage(twapData)
    \/ \E tradesData \in Batches(Trades) : UpdateFromTradesMessage(tradesData)
    \/ \E coin \in StoredCoins : Reset(coin)

TwapSpec == TwapInit /\ [][TwapNext]_vars

\* ---------------------------------------------------------- the URL functions
\* The raw parameters of a URL: each absent or one of these strings.
UrlInputs ==
    LET symbols == { << >>, << " ", " " >>, << "B", "T", "C" >>, << "e", "t", "h" >>,
                     << " ", "E", "t", "h", " " >> }
        buckets == { << >>, << "a", "u", "t", "o" >>, << "A", "u", "t", "o" >>,
                     << " ", "F", "U", "L", "L" >>, << "0" >>, << "0", ".", "0" >>,
                     << "-", "0" >>, << "1", "0" >>, << "1", "0", ".", "0" >>,
                     << "0", ".", "5" >>, << ".", "5" >>, << "2", "." >>,
                     << "1", "E", "2" >>, << "2", "5", "e", "-", "1" >>,
                     << "+", "5" >>, << "-", "5" >>, << "5", "u", "s", "d" >>,
                     << "a", "b", "c" >>, << "." >>, << "N", "a", "N" >>,
                     << "I", "n", "f", "i", "n", "i", "t", "y" >>,
                     << "1", "e", "9", "9", "9" >> }
        levels == { << >>, << "a", "b", "c" >>, << "0" >>, << "1" >>, << "2", "0" >>,
                    << "5", "0", ".", "7" >>, << "1", "0", "0" >>,
                    << "5", "0", "0" >>, << "-", "3" >>, << " ", "2", "0", "p", "x" >> }
        Optional(S) == {{}} \cup { {v} : v \in S }
    IN  [ symbol : Optional(symbols), bucket : Optional(buckets),
          levels : Optional(levels) ]

UrlInit ==
    /\ Created({"url"})
    /\ call \in { [fn |-> "validateUrlParams", args |-> << params >>] :
                  params \in UrlInputs }
    /\ result = NoResult

ValidateUrlParams ==
    /\ call.fn = "validateUrlParams"
    /\ ~result.returned
    /\ result' = Returned(validateUrlParams(call.args[1]))
    /\ UNCHANGED world

UrlNext == ValidateUrlParams

UrlSpec == UrlInit /\ [][UrlNext]_vars

\* ------------------------------------------------------------------- claims
\* Handles of topic k that subscribe() has returned and no one has invoked.
Interest(h, k) ==
    HeldTotal([x \in { y \in DOMAIN h : buildKey(y[1].type, y[1].params) = k }
                 |-> h[x]])

\* The wire messages about topic k among msgs.
About(msgs, k) == SelectSeq(msgs, LAMBDA m : m.topic = k)

Msg(method, k) == [method |-> method, topic |-> k]

\* Registry and server agree with the handles outstanding: a topic has an entry
\* and one server-side subscription exactly when a handle of it is outstanding.
Consistent ==
    \A k \in AllKeys :
        LET on == IF Interest(held, k) > 0 THEN 1 ELSE 0
        IN  wire[k] = on /\ Registered(subscriptions, k) = on

\* C1: while the transport is open and not paused, a subscribe() call or a
\* handle invocation emits a subscribe message for a topic exactly when it is
\* the topic's first outstanding handle, an unsubscribe message exactly when the
\* topic's last outstanding handle is released, and nothing otherwise.
C1_OneSubscribeOneUnsubscribe ==
    [][ ( /\ socket = "OPEN" /\ ~paused /\ Consistent
          /\ lastOp' \in {"subscribe", "release", "releaseAgain"} )
        => \A k \in AllKeys :
             About(sent', k) =
               IF Interest(held, k) = 0 /\ Interest(held', k) > 0
               THEN << Msg("subscribe", k) >>
               ELSE IF Interest(held, k) > 0 /\ Interest(held', k) = 0
               THEN << Msg("unsubscribe", k) >>
               ELSE << >> ]_vars

\* C2: at most one socket that is connecting or open exists (the manager never
\* detaches its handlers from a socket it has constructed).
C2_OneLiveTransport ==
    (IF socket \in {"CONNECTING", "OPEN"} THEN 1 ELSE 0)
      + stale["CONNECTING"] + stale["OPEN"] <= 1

\* C3: invoking a handle that has been invoked before changes neither the
\* registry nor any consumer set and emits no wire message.
C3_SecondInvocationNoOp ==
    [][ lastOp' = "releaseAgain" => subscriptions' = subscriptions /\ sent' = << >> ]_vars

\* C4: after an open event is handled the attempt counter is 0, the status is
\* connected, and exactly one subscribe message has been emitted on the current
\* transport for each registered topic, and no other message.
C4_OpenResubscribesAll ==
    lastOp = "open" =>
        /\ reconnectAttempts = 0
        /\ status = "connected"
        /\ \A k \in AllKeys :
             About(sent, k) = IF Registered(subscriptions, k) = 1
                              THEN << Msg("subscribe", k) >> ELSE << >>

\* C5: when disconnect() has returned no reconnect timer is pending, no transport
\* is held and the status is disconnected; and a transport or timer event
\* delivered next schedules no reconnection and opens no transport.
C5_DisconnectIsTerminal ==
    [][ /\ lastOp' = "disconnect" =>
            socket' = "null" /\ status' = "disconnected"
            /\ reconnectTimeout' = "null" /\ orphans' = 0
        /\ (lastOp = "disconnect" /\ lastOp' \in {"open", "error", "close", "timer"}) =>
            socket' = "null" /\ scheduled' = << >>
            /\ reconnectTimeout' = "null" ]_vars

\* The manager has just given up: the attempt ceiling was found reached and the
\* status set to error, with no socket and no timer left that could fire.
GaveUp ==
    /\ reconnectAttempts = maxReconnectAttempts
    /\ status = "error"
    /\ notified \in { << "disconnected", "error" >>, << "connecting", "error", "error" >> }
    /\ LiveSockets(This) = 0 /\ PendingTimers(This) = 0 /\ task = "none"

\* C6: once the manager has given up after 10 failed attempts, the status stays
\* error, no attempt is scheduled and no transport is opened by anything but an
\* explicit reconnect() (disconnect(), the other lifecycle command, aside).
C6_HoldsErrorUntilReconnect ==
    [][ (GaveUp /\ lastOp' \notin {"reconnect", "disconnect"})
        => status' = "error" /\ scheduled' = << >> /\ socket' = socket ]_vars

\* The delay of the k-th consecutive attempt, as the claim lists it.
ExpectedDelay(k) ==
    CASE k = 1 -> 2000
      [] k = 2 -> 4000
      [] k = 3 -> 8000
      [] k = 4 -> 16000
      [] k \in 5 .. 10 -> 30000

\* C7: an operation schedules at most one attempt; the k-th consecutive attempt
\* (k the counter after its increment, 1..10) is scheduled with delay
\* min(2000 * 2^(k-1), 30000); the counter goes up by one per scheduled attempt,
\* counted from 0 within reconnect(), changes otherwise only to 0, and is 0 after
\* every open event.
C7_BackoffDelays ==
    [][ /\ Len(scheduled') <= 1
        /\ scheduled' # << >> =>
             /\ reconnectAttempts' \in 1 .. 10
             /\ scheduled'[1] = ExpectedDelay(reconnectAttempts')
             /\ reconnectAttempts' =
                  (IF lastOp' = "reconnect" THEN 0 ELSE reconnectAttempts) + 1
        /\ scheduled' = << >> => reconnectAttempts' \in {reconnectAttempts, 0}
        /\ lastOp' = "open" => reconnectAttempts' = 0 ]_vars

\* The tenth consecutive attempt has just been scheduled, at the capped delay.
C7_TenthAttemptScheduled ==
    /\ reconnectAttempts = 10
    /\ scheduled = << 30000 >>
    /\ lastOp = "close"

\* C8: at most one reconnect timer is pending.
C8_OnePendingTimer == PendingTimers(This) <= 1

\* C9: while paused no reconnect timer is pending, and a close event or a
\* construction failure handled while paused neither increments the attempt
\* counter nor schedules a timer nor opens a transport.
C9_PausedNeverReconnects ==
    [][ /\ paused' => PendingTimers(This)' = 0
        /\ (paused /\ lastOp' = "close") =>
             /\ reconnectAttempts' = reconnectAttempts
             /\ scheduled' = << >>
             /\ socket' = socket
        /\ (paused /\ ctorThrows /\ lastOp' \in {"subscribe", "connect"}) =>
             /\ reconnectAttempts' = reconnectAttempts
             /\ scheduled' = << >>
             /\ socket' = socket ]_vars

\* C10: resume() called after a pause() with no call by a consumer in between
\* leaves, on an open transport, each registered topic subscribed exactly once.
C10_PauseResumeRestores ==
    [][ (quiet /\ lastOp' = "resume" /\ socket' = "OPEN")
        => \A k \in AllKeys : wire'[k] = Registered(subscriptions', k) ]_vars

\* The fields of the manager and the browser objects they reference.
Manager ==
    << socket, stale, subscriptions, reconnectAttempts, reconnectTimeout,
       orphans, status, paused, wire >>

\* C11: pause() and resume() leave the registry (topics and consumer sets) as
\* it was; pause() while paused and resume() while not paused change no state,
\* emit no wire message, notify no status and open no transport.
C11_PauseResumeFrame ==
    [][ lastOp' \in {"pause", "resume"} =>
          /\ subscriptions' = subscriptions
          /\ ((lastOp' = "pause" /\ paused) \/ (lastOp' = "resume" /\ ~paused)) =>
                /\ Manager' = Manager
                /\ sent' = << >> /\ notified' = << >> /\ scheduled' = << >> ]_vars

\* pause() has just returned on an open socket with topics registered and has
\* sent nothing: the manager was paused already.
C11_PausedAgain ==
    /\ lastOp = "pause" /\ paused
    /\ socket = "OPEN" /\ subscriptions # << >>
    /\ sent = << >>

\* The last operation handled a frame that arrived whole on the manager's one
\* and only socket: the frame was parsed and routed.
Routed ==
    /\ lastOp = "message" /\ ~inbound.frame.truncated
    /\ socket = "OPEN" /\ stale = NoStale

\* Consumer cb of registry entry i was invoked with the payload of the frame.
Received(i, cb) ==
    InSeq([key |-> subscriptions[i].key, callback |-> cb, data |-> inbound.frame.data],
          delivered)

\* Whether the code's test accepts the frame for registry entry i.
Matches(i) == matchesChannel(subscriptions[i], inbound.frame.channel, inbound.frame.data)

\* C12: when a consumer callback throws while a frame is routed (and the
\* matching itself fails on no entry), every consumer that does not throw, of
\* every entry the frame matches, is still invoked with it.
C12_ThrowingCallbackIsolated ==
    (Routed /\ inbound.throwers # {}
       /\ \A i \in 1 .. Len(subscriptions) : Matches(i) # "throw")
    => \A i \in 1 .. Len(subscriptions) :
         Matches(i) = "true" =>
           \A j \in 1 .. Len(subscriptions[i].callbacks) :
             subscriptions[i].callbacks[j] \notin inbound.throwers
               => Received(i, subscriptions[i].callbacks[j])

\* The payload carries the coin: it is an object whose coin member is the
\* coin, or a sequence with an element that is such an object.
CarriesCoin(data, coin) ==
    \/ data.kind = "object" /\ data.coin = coin
    \/ data.kind = "array"
         /\ \E n \in 1 .. Len(data.items) :
              data.items[n].kind = "object" /\ data.items[n].coin = coin

\* The coin filter of registry entry i ("undefined": the entry has none).
Filter(i) == Param(subscriptions[i].params, "coin")

\* C13: a consumer of an entry with a coin filter is invoked with a frame only
\* if the frame's channel is the entry's type and its payload carries the coin.
C13_CoinFilterOnlyMatching ==
    Routed =>
      \A i \in 1 .. Len(subscriptions) :
        (Filter(i) # "undefined"
           /\ \E j \in 1 .. Len(subscriptions[i].callbacks) :
                Received(i, subscriptions[i].callbacks[j]))
        => /\ inbound.frame.channel = subscriptions[i].type
           /\ CarriesCoin(inbound.frame.data, Filter(i))

\* C14: when no callback throws, every consumer of an entry with a coin filter
\* whose type is the frame's channel is invoked with a sequence payload exactly
\* when an element of it has the coin; every consumer of an entry with no coin
\* filter is invoked with every frame on its channel; and what a consumer is
\* invoked with is the entire payload.
C14_SequencePayloadDelivery ==
    (Routed /\ inbound.throwers = {}) =>
      /\ \A n \in 1 .. Len(delivered) : delivered[n].data = inbound.frame.data
      /\ \A i \in 1 .. Len(subscriptions) :
           \A j \in 1 .. Len(subscriptions[i].callbacks) :
             LET cb == subscriptions[i].callbacks[j]
                 onChannel == subscriptions[i].type = inbound.frame.channel
             IN  /\ (Filter(i) # "undefined" /\ onChannel
                        /\ inbound.frame.data.kind = "array")
                     => (Received(i, cb) <=> CarriesCoin(inbound.frame.data, Filter(i)))
                 /\ (Filter(i) = "undefined" /\ onChannel) => Received(i, cb)

\* C15: in the statuses a listener observes (the status before an operation,
\* then each status the operation gives to setStatus), connected is never
\* entered from a status other than connecting.
C15_ConnectedOnlyFromConnecting ==
    [][ LET seen == << status >> \o notified'
        IN  \A n \in 2 .. Len(seen) :
              (seen[n] = "connected" /\ seen[n - 1] # "connected")
                => seen[n - 1] = "connecting" ]_vars

\* C16: every entry of the registry has at least one consumer.
C16_NoEmptyEntry ==
    \A i \in 1 .. Len(subscriptions) : Len(subscriptions[i].callbacks) >= 1

\* A handle has just removed the last consumer of a topic on an open socket:
\* the unsubscribe was sent and the entry is gone, while another entry stays.
C16_LastConsumerReleased ==
    /\ lastOp = "release"
    /\ Len(sent) = 1 /\ sent[1].method = "unsubscribe"
    /\ Registered(subscriptions, sent[1].topic) = 0
    /\ Len(subscriptions) = 1

\* C17: connect() called while this.socket is open changes no state and
\* notifies no status; connect() called right after connect(), no event having
\* been delivered in between, opens no additional transport.
C17_ConnectIdempotent ==
    [][ lastOp' = "connect" =>
          /\ socket = "OPEN" => (Manager' = Manager /\ notified' = << >>)
          /\ lastOp = "connect" => LiveSockets(This)' = LiveSockets(This) ]_vars

\* C18: whenever the status is error the attempt counter has reached the
\* maximum.
C18_ErrorOnlyAfterCeiling ==
    status = "error" => reconnectAttempts = maxReconnectAttempts

\* A close event has just been handled while not paused and below the attempt
\* ceiling (a reconnection was scheduled), and it left the manager with no
\* connecting or open socket.
C19_ClosedUnexpectedly ==
    /\ lastOp = "close" /\ scheduled # << >>
    /\ socket \notin {"CONNECTING", "OPEN"}

C20_MalformedFrameDropped ==
    [][ (lastOp' = "message" /\ inbound'.frame.truncated) =>
          /\ delivered' = << >>
          /\ Manager' = Manager
          /\ sent' = << >> /\ notified' = << >> /\ scheduled' = << >> ]_vars

\* A frame cut short has just been handled on an open socket, with an entry
\* registered that the frame, had it arrived whole, would have matched.
C20_TruncatedFrameHandled ==
    /\ lastOp = "message" /\ inbound.frame.truncated
    /\ socket = "OPEN"
    /\ \E i \in 1 .. Len(subscriptions) : Matches(i) = "true"
    /\ delivered = << >>

\* C21: when new WebSocket(url) throws inside connect(), the status, the
\* attempt counter and the timers that connect() leaves behind are those the
\* close handler leaves behind when it runs in the state connect() was called in.
C21_ConstructionFailureAsClose ==
    [][ (lastOp' = "connect" /\ ctorThrows /\ ~IsOpen(This))
        => LET c == onclose(This)
           IN  /\ status' = c.status
               /\ reconnectAttempts' = c.reconnectAttempts
               /\ reconnectTimeout' = c.reconnectTimeout
               /\ orphans' = c.orphans ]_vars

\* C23: on one transport, an unsubscribe message for a topic is emitted only
\* after a subscribe message for it that no unsubscribe message has answered:
\* of the messages sent on this.socket, no topic has more unsubscribes than
\* subscribes.
C23_UnsubscribeAfterSubscribe ==
    \A k \in AllKeys : wire[k] >= 0

\* The consumers of topic k in the registry subs, in the order it keeps them.
Consumers(subs, k) ==
    IF Find(subs, k) = 0 THEN << >> ELSE subs[Find(subs, k)].callbacks

\* a comes before b in the sequence.
Before(seq, a, b) ==
    \E i \in 1 .. Len(seq), j \in 1 .. Len(seq) : i < j /\ seq[i] = a /\ seq[j] = b

\* C24: the consumers of a topic stay in the order they were registered in (a
\* consumer registered while another is registered comes after it, and the two
\* keep that order for as long as both stay registered), and a frame is
\* delivered to the consumers of a topic in that order.
C24_DeliveryInRegistrationOrder ==
    [][ /\ \A j \in 1 .. Len(subscriptions') :
             Len(subscriptions'[j].callbacks) >= 2 =>
               LET new == subscriptions'[j].callbacks
                   old == Consumers(subscriptions, subscriptions'[j].key)
               IN  \A a \in Callbacks, b \in Callbacks :
                     (InSeq(a, new) /\ InSeq(b, new) /\ a # b)
                     => /\ Before(old, a, b) => Before(new, a, b)
                        /\ (InSeq(a, old) /\ ~InSeq(b, old)) => Before(new, a, b)
        /\ (lastOp' = "message" /\ Len(delivered') >= 2) =>
             \A m \in 1 .. Len(delivered'), n \in 1 .. Len(delivered') :
               (m < n /\ delivered'[m].key = delivered'[n].key)
               => Before(Consumers(subscriptions, delivered'[m].key),
                         delivered'[m].callback, delivered'[n].callback)
      ]_vars

\* A frame has just been delivered to two consumers of one topic, first to the
\* one registered first, whose name sorts last.
C24_TwoConsumersInOrder ==
    /\ lastOp = "message"
    /\ Len(delivered) = 2
    /\ delivered[1].key = delivered[2].key
    /\ delivered[1].callback = "cb2" /\ delivered[2].callback = "cb1"
    /\ Consumers(subscriptions, delivered[1].key) = << "cb2", "cb1" >>

\* Two params objects give every parameter the same value (a key that is not
\* there, and a key whose value is undefined, both give undefined).
SameParams(a, b) ==
    \A name \in ParamNames : Param(a, name) = Param(b, name)

\* C22: the keys of two subscribe() calls are the same, and so the calls
\* resolve to one registry entry, exactly when the calls have the same type and
\* give every parameter the same value, in whatever order the parameters were
\* inserted.
C22_KeyIndependentOfOrder ==
    (call.fn = "buildKey" /\ result.returned)
    => ( result.value[1] = result.value[2]
         <=> ( /\ call.args[1].type = call.args[2].type
               /\ SameParams(call.args[1].params, call.args[2].params) ) )

\* Two calls with the same two parameters, inserted in opposite orders, have
\* been keyed, and the keys are the same.
C22_ReorderedSameKey ==
    /\ call.fn = "buildKey" /\ result.returned
    /\ Len(call.args[1].params) = 2
    /\ call.args[2].params = << call.args[1].params[2], call.args[1].params[1] >>
    /\ call.args[1].type = call.args[2].type
    /\ result.value[1] = result.value[2]

\* The candidate of mantissa m for the price and size of the call, and how far
\* a candidate's bucket size is from the desired one.
Candidate(m) == calculateBucketConfig(call.args[1], call.args[2], m)

Diff(c) == Abs(c.actualBucketSize - call.args[2])

\* C25: findBestBucketConfig returns the candidate of a mantissa m in 1, 2, 5
\* no other candidate is closer to the desired size than, and no candidate of
\* a mantissa before m is as close as.
C25_ClosestCandidateEarliestOnTie ==
    (call.fn = "findBestBucketConfig" /\ result.returned)
    => \E m \in {1, 2, 5} :
         /\ result.value = Candidate(m)
         /\ \A n \in {1, 2, 5} :
              /\ Diff(Candidate(m)) <= Diff(Candidate(n))
              /\ Diff(Candidate(n)) = Diff(Candidate(m)) => m <= n

\* findBestBucketConfig has returned where two different candidates are equally
\* close and none is closer, and it has returned the one of the earlier mantissa.
C25_TieKeptEarlier ==
    /\ call.fn = "findBestBucketConfig" /\ result.returned
    /\ \E m \in {1, 2, 5}, n \in {1, 2, 5} :
         /\ m < n
         /\ Candidate(m) # Candidate(n)
         /\ Diff(Candidate(m)) = Diff(Candidate(n))
         /\ \A k \in {1, 2, 5} : Diff(Candidate(m)) <= Diff(Candidate(k))
         /\ result.value = Candidate(m)

\* C26: for a price above 0 generateBucketOptions returns five values, each
\* less than the next, which are mantissa * 10^(priceDigits - nSigFigs) for
\* (nSigFigs, mantissa) = (5,5), (5,2), (4,1), (3,1), (2,1) in this order; for
\* any other price it returns the empty sequence.
C26_FiveAscendingOptions ==
    (call.fn = "generateBucketOptions" /\ result.returned)
    => LET price == call.args[1]
           v == result.value
       IN  IF price <= 0 THEN v = << >>
           ELSE /\ Len(v) = 5
                /\ \A i \in 1 .. 4 : v[i] < v[i + 1]
                /\ \E priceDigits \in 1 .. MaxExp + 4 :
                     /\ Pow10(priceDigits - 1) <= price
                     /\ price < Pow10(priceDigits)
                     /\ v = << 5 * pow10(priceDigits - 5), 2 * pow10(priceDigits - 5),
                               pow10(priceDigits - 4), pow10(priceDigits - 3),
                               pow10(priceDigits - 2) >>

C28_MantissaOnlyWithFiveFigures ==
    (call.fn \in {"calculateBucketConfig", "findBestBucketConfig"} /\ result.returned)
    => \E m \in (IF call.fn = "calculateBucketConfig" THEN {call.args[3]} ELSE {1, 2, 5}) :
         /\ result.value = Candidate(m)
         /\ result.value.mantissa # Undefined
              <=> (result.value.nSigFigs = {5} /\ m \in {2, 5})
         /\ result.value.nSigFigs \subseteq 2 .. 5

\* calculateBucketConfig has returned, for a preferred mantissa of 2 or 5, a
\* config of fewer than 5 significant figures, and so without a mantissa.
C28_MantissaWithheld ==
    /\ call.fn = "calculateBucketConfig" /\ result.returned
    /\ call.args[3] \in {2, 5}
    /\ result.value.nSigFigs \in {{2}, {3}, {4}}
    /\ result.value.mantissa = Undefined

\* calculateBucketConfig(106000, 100, 1) has returned.
C29_ExampleReturned ==
    /\ call = [fn |-> "calculateBucketConfig", args |-> << 106000, 100 * Unit, 1 >>]
    /\ result.returned

\* C29, as stated: calculateBucketConfig(106000, 100, 1) returns nSigFigs = 3.
C29_ThreeSignificantFigures ==
    C29_ExampleReturned => result.value.nSigFigs = {3}

\* C29, amended: every call of calculateBucketConfig(106000, 100, 1) returns
\* nSigFigs = 4, no mantissa and actualBucketSize = 100.
C29_FourSignificantFigures ==
    C29_ExampleReturned
    => result.value = [nSigFigs |-> {4}, mantissa |-> Undefined,
                       actualBucketSize |-> 100 * Unit]

\* clamp(floor(log10(price / desired)) + 1, 2, 5), the formula of the function's
\* documentation.
DocumentedSigFigs(price, desired) ==
    Max(2, Min(5, floorLog10(price * Unit, desired) + 1))

\* C30: for a price and a desired size above 0, calculateBucketConfig with
\* mantissa 1 returns the nSigFigs of the documented formula.
C30_DocumentedFormula ==
    ( /\ call.fn = "calculateBucketConfig" /\ result.returned
      /\ call.args[1] > 0 /\ call.args[2] > 0 /\ call.args[3] = 1 )
    => result.value.nSigFigs = {DocumentedSigFigs(call.args[1], call.args[2])}

\* C32: every topic has as many consumers in the registry as handles that
\* subscribe() has returned for it and no one has invoked.
C32_ConsumersEqualHandles ==
    \A k \in AllKeys : Len(Consumers(subscriptions, k)) = Interest(held, k)

\* Sockets that can still fire events, given this.socket and the stale ones.
LiveCount(sk, st) ==
    (IF sk \in LiveStates THEN 1 ELSE 0)
      + st["CONNECTING"] + st["OPEN"] + st["CLOSING"]

\* C33: an operation or event handled while the manager is paused, other than
\* resume(), emits no subscribe message and constructs no socket.
C33_PausedIsSilent ==
    [][ (paused /\ lastOp' # "resume")
        => /\ \A n \in 1 .. Len(sent') : sent'[n].method # "subscribe"
           /\ LiveCount(socket', stale') <= LiveCount(socket, stale) ]_vars

C35_StatusAgreesWithTransport ==
    (status = "connected") <=> (socket = "OPEN")

\* C36: the attempt counter is one of 0..10, and a step that changes it is an
\* open event (to 0), a reconnect() (to 0, plus 1 if it schedules an attempt),
\* or any other step that schedules one attempt (plus 1).
C36_CounterRangeAndWriters ==
    [][ /\ reconnectAttempts' \in 0 .. 10
        /\ reconnectAttempts' # reconnectAttempts =>
             \/ lastOp' = "open" /\ reconnectAttempts' = 0
             \/ lastOp' = "reconnect" /\ reconnectAttempts' = Len(scheduled')
             \/ /\ lastOp' \notin {"open", "reconnect"}
                /\ Len(scheduled') = 1
                /\ reconnectAttempts' = reconnectAttempts + 1 ]_vars

\* A close event has just been handled at the ceiling: the counter stays at 10
\* and no attempt is scheduled.
C36_CeilingHeld ==
    /\ lastOp = "close" /\ ~paused
    /\ reconnectAttempts = 10
    /\ scheduled = << >>
    /\ InSeq("error", notified)

\* The (nSigFigs, mantissa) pairs the five options are documented to stand for.
OptionPairs ==
    << [nSigFigs |-> {5}, mantissa |-> {5}], [nSigFigs |-> {5}, mantissa |-> {2}],
       [nSigFigs |-> {4}, mantissa |-> Undefined],
       [nSigFigs |-> {3}, mantissa |-> Undefined],
       [nSigFigs |-> {2}, mantissa |-> Undefined] >>

C38_DefaultIsFourFigures ==
    (call.fn = "selectDefaultBucket" /\ result.returned)
    => LET price == call.args[1]
       IN  IF price <= 0 THEN result.value = 0
           ELSE /\ result.value = generateBucketOptions(price)[3]
                /\ \E priceDigits \in 1 .. MaxExp + 4 :
                     /\ Pow10(priceDigits - 1) <= price
                     /\ price < Pow10(priceDigits)
                     /\ result.value = pow10(priceDigits - 4)

\* selectDefaultBucket has returned a size below 1, for a price of at most
\* three digits.
C38_FractionalDefault ==
    /\ call.fn = "selectDefaultBucket" /\ result.returned
    /\ call.args[1] > 0
    /\ result.value > 0 /\ result.value < Unit

\* C31: the fills of every TWAP item of the store have pairwise distinct tids.
C31_FillsDistinctByTid ==
    \A i \in 1 .. Len(twapStore.twapStatuses) :
      LET fills == twapStore.twapStatuses[i].fills
      IN  \A m \in 1 .. Len(fills), n \in 1 .. Len(fills) :
            m # n => fills[m].tid # fills[n].tid

\* C39: a config returned by validateUrlParams, serialized to URL parameters,
\* parsed and validated again, is the same config.
C39_UrlRoundTrip ==
    (call.fn = "validateUrlParams" /\ result.returned)
      => validateUrlParams(parseUrlParams(serializeConfig(result.value))) = result.value

====
